---- MODULE Spec2Model ----
(***************************************************************************)
(* storagelib: a StorageContext holds the storages read from the config    *)
(* file, orders them with sort_repos (priority, then weight, after the     *)
(* SRV ordering of RFC 2782) and store() hands the file to the first       *)
(* storage whose setup() succeeds.  Storages are the local one             *)
(* (BaseStorage) and the ssh plugin (ssh.Storage).                         *)
(***************************************************************************)
EXTENDS Integers, Sequences, FiniteSets, TLC

(* ---- bounds of the model ---- *)
MaxBackends == 3        \* sections of the config file
MaxPriority == 1        \* priority values 0..MaxPriority
MaxWeight == 2          \* weight values 0..MaxWeight
MaxThreads == 2         \* threads that share one context
MaxConcBackends == 2    \* sections of the config file when threads share it
MaxClock == 1           \* seconds the clock can advance during a policy call
MaxTries == 4           \* collisions counted (the count stops there)
MaxStores == 2          \* store() calls made in a row on one storage
MaxRegs == 4            \* calls of register_storage_type
RecursionLimit == 3     \* frames the interpreter allows a policy to nest

(* ---- processes: the constructor of the context, entered from the        *)
(* module's store(), and the threads that call the context's store() ---- *)
Ctor == 0
Ops == 1..MaxThreads
Procs == {Ctor} \cup Ops

None == 0

(* base_uri values of the config file: with and without the final '/' *)
BaseUris == {<<"u">>, <<"u", "/">>}
Types == {"local", "ssh"}

(* STORAGELIB_CONFIG_FILE: not set (or empty), the name of a file that     *)
(* cannot be opened, or the name of a file ConfigParser can read           *)
CfgFiles == {"unset", "missing", "readable"}

(* one section of the config file, as parse_cfg reads it *)
Sections == [type_ : Types, base_uri : BaseUris,
             priority : 0..MaxPriority, weight : 0..MaxWeight]

Configs == UNION {[1..n -> Sections] : n \in 0..MaxBackends}

VARIABLES
    cfg_file,    \* what STORAGELIB_CONFIG_FILE names
    config,      \* the config file: sequence of sections
    storage,     \* storage instances of repo_list: id -> fields
    client,      \* ssh.Storage.client of each instance: connection id or None
    repo_list,   \* StorageContext.repo_list: sequence of instance ids
    conns,       \* transports opened so far: sequence of records
    threads,     \* the threads of the application that call store()
    pc,          \* position of each process
    unordered,   \* sort_repos local
    ordered,     \* sort_repos local
    sum_,        \* sort_repos local
    count,       \* sort_repos local
    rand_num,    \* sort_repos local: the last draw
    idx,         \* position of the for loop of StorageContext.store
    log,         \* calls each store() made on storages, with their outcome
    ret,         \* value returned by each store()
    exc,         \* exception each process ended with
    fs,          \* the paths that exist under dest
    now,         \* the clock, in seconds
    np_policy,   \* the name policy under call
    np_path,     \* the path the policy was called with
    np_pc,       \* position in the policy
    np_arg,      \* argument of the call being entered
    np_stack,    \* npath of each active frame of the policy, last is innermost
    np_tries,    \* existence checks that found the candidate taken
    np_result,   \* the path the policy returned
    np_exc,      \* exception the policy ended with
    STORAGES,    \* _STORAGES: type_ -> registered class
    extra_attrs, \* the extra_attrs list each class owns, if it owns one
    class_dict,  \* what each class holds under the keys a plugin can mark
    reg          \* the register_storage_type call under way

ctxvars == <<cfg_file, config, storage, client, repo_list, conns, threads>>
sortvars == <<unordered, ordered, sum_, count, rand_num>>
opvars == <<idx, log, ret, exc>>
regvars == <<STORAGES, extra_attrs, class_dict, reg>>
npvars == <<fs, now, np_policy, np_path, np_pc, np_arg, np_stack, np_tries,
           np_result, np_exc>>
vars == <<cfg_file, config, storage, client, repo_list, conns, threads, pc,
          unordered, ordered, sum_, count, rand_num, idx, log, ret, exc,
          fs, now, np_policy, np_path, np_pc, np_arg, np_stack, np_tries,
          np_result, np_exc, STORAGES, extra_attrs, class_dict, reg>>

Ids == 1..Len(config)

(* ---- helpers on sequences ---- *)
RECURSIVE SumWeights(_, _)
SumWeights(st, s) ==
    IF s = <<>> THEN 0 ELSE st[Head(s)].weight + SumWeights(st, Tail(s))

ListRemove_head(s, x) == Tail(s)

(* list.remove(x): drops the first occurrence of x *)
RECURSIVE ListRemove(_, _)
ListRemove(s, x) ==
    IF s = <<>> THEN <<>>
    ELSE IF Head(s) = x THEN Tail(s)
    ELSE <<Head(s)>> \o ListRemove(Tail(s), x)

(* ---- cmp_storages ---- *)
cmp_storages_priority(repo1, repo2) == repo1.priority - repo2.priority

cmp_storages_swapped(repo1, repo2) ==
    IF repo1.priority = repo2.priority
    THEN repo1.weight - repo2.weight
    ELSE repo2.priority - repo1.priority

cmp_storages(repo1, repo2) ==
    IF repo1.priority = repo2.priority
    THEN repo1.weight - repo2.weight
    ELSE repo1.priority - repo2.priority

(* list.sort(cmp): a stable sort; x goes before the first element that    *)
(* compares greater than it                                                *)
ListInsert(st, s, x) ==
    LET later == {i \in 1..Len(s) : cmp_storages(st[s[i]], st[x]) > 0}
        k == IF later = {} THEN Len(s) + 1
             ELSE CHOOSE i \in later : \A j \in later : i <= j
    IN  SubSeq(s, 1, k - 1) \o <<x>> \o SubSeq(s, k, Len(s))

RECURSIVE ListSort(_, _)
ListSort(st, s) ==
    IF s = <<>> THEN <<>>
    ELSE ListInsert(st, ListSort(st, SubSeq(s, 1, Len(s) - 1)), s[Len(s)])

(* the for loop of the extraction: the first repo of `unordered' whose    *)
(* weight is >= what is left of the draw; the loop variable keeps the     *)
(* last element when the loop ends without a break                         *)
RECURSIVE WalkUnordered(_, _, _, _)
WalkUnordered(st, u, i, r) ==
    IF st[u[i]].weight >= r THEN u[i]
    ELSE IF i = Len(u) THEN u[i]
    ELSE WalkUnordered(st, u, i + 1, r - st[u[i]].weight)

(* ---- construction: parse_cfg has read the file ---- *)
NewStorage(sec) ==
    [type_ |-> sec.type_, base_uri |-> sec.base_uri,
     priority |-> sec.priority, weight |-> sec.weight]

(* ---- the registry of storage types: register_storage_type, called by   *)
(* StorageMeta for every class statement and by parse_cfg for every       *)
(* plugin ---- *)
Classes == {"BaseStorage", "Storage"}

TypeOf(klass) == IF klass = "BaseStorage" THEN "local" ELSE "ssh"

BaseOf(klass) == IF klass = "Storage" THEN "BaseStorage" ELSE "object"

(* the names ssh.Storage can mark with Attr(), in the order of dir() *)
DirKeys == <<"host", "password", "port", "user">>

KeySet == {DirKeys[i] : i \in 1..Len(DirKeys)}

(* attribute lookup of 'extra_attrs': the class itself, then its base *)
Owner(ea, klass) ==
    IF ea[klass].own THEN klass
    ELSE IF BaseOf(klass) \in Classes /\ ea[BaseOf(klass)].own THEN BaseOf(klass)
    ELSE "none"

(* dir(klass), as far as these names go *)
DirOf(cd, klass) ==
    LET Has(key) == cd[klass][key] # "absent"
    IN  SelectSeq(DirKeys, Has)

(* no class statement has run yet; the plugin marks some of its names *)
RegInit ==
    /\ STORAGES = [t \in Types |-> "none"]
    /\ extra_attrs = [k \in Classes |-> [own |-> FALSE, list |-> <<>>]]
    /\ \E marked \in SUBSET KeySet :
         class_dict = [k \in Classes |-> [key \in KeySet |->
                          IF k = "Storage" /\ key \in marked THEN "Attr"
                          ELSE "absent"]]
    /\ reg = [pc |-> "idle", klass |-> "none", keys |-> <<>>, count |-> 0]

(* storagelib and the ssh plugin have been imported *)
Registered ==
    /\ STORAGES = [t \in Types |-> IF t = "local" THEN "BaseStorage" ELSE "Storage"]
    /\ extra_attrs = [k \in Classes |->
                        IF k = "BaseStorage" THEN [own |-> TRUE, list |-> DirKeys]
                        ELSE [own |-> FALSE, list |-> <<>>]]
    /\ class_dict = [k \in Classes |-> [key \in KeySet |->
                        IF k = "Storage" THEN "default" ELSE "absent"]]
    /\ reg = [pc |-> "idle", klass |-> "Storage", keys |-> <<>>, count |-> 2]

(* the class statement of BaseStorage runs once, the one of ssh.Storage   *)
(* after it; parse_cfg registers the plugin's Storage again               *)
RegBegin(klass) ==
    /\ reg.pc = "idle"
    /\ reg.count < MaxRegs
    /\ klass = "BaseStorage" => STORAGES["local"] = "none"
    /\ klass = "Storage" => STORAGES["local"] = "BaseStorage"
    /\ extra_attrs' = IF Owner(extra_attrs, klass) = "none"
                      THEN [extra_attrs EXCEPT ![klass] = [own |-> TRUE, list |-> <<>>]]
                      ELSE extra_attrs
    /\ reg' = [pc |-> "for_key", klass |-> klass,
               keys |-> DirOf(class_dict, klass), count |-> reg.count + 1]
    /\ UNCHANGED <<STORAGES, class_dict, npvars, ctxvars, pc, sortvars, opvars>>

(* for key in dir(klass): an Attr is listed and replaced by its default *)
RegKey ==
    /\ reg.pc = "for_key"
    /\ reg.keys # <<>>
    /\ LET key == Head(reg.keys)
           klass == reg.klass
           owner == Owner(extra_attrs, klass)
       IN  IF class_dict[klass][key] = "Attr"
           THEN /\ extra_attrs' = [extra_attrs EXCEPT ![owner].list = Append(@, key)]
                /\ class_dict' = [class_dict EXCEPT ![klass][key] = "default"]
           ELSE UNCHANGED <<extra_attrs, class_dict>>
    /\ reg' = [reg EXCEPT !.keys = Tail(@)]
    /\ UNCHANGED <<STORAGES, npvars, ctxvars, pc, sortvars, opvars>>

RegEnd ==
    /\ reg.pc = "for_key"
    /\ reg.keys = <<>>
    /\ STORAGES' = [STORAGES EXCEPT ![TypeOf(reg.klass)] = reg.klass]
    /\ reg' = [reg EXCEPT !.pc = "idle"]
    /\ UNCHANGED <<extra_attrs, class_dict, npvars, ctxvars, pc, sortvars, opvars>>

NpIdle ==
    /\ fs = {}
    /\ now = 0
    /\ np_policy = "none"
    /\ np_path = <<>>
    /\ np_pc = "off"
    /\ np_arg = <<>>
    /\ np_stack = <<>>
    /\ np_tries = 0
    /\ np_result = <<>>
    /\ np_exc = "none"

InitWith(cfgs, thr) ==
    /\ NpIdle
    /\ Registered
    /\ cfg_file \in CfgFiles
    /\ config \in IF cfg_file = "readable" THEN cfgs ELSE {<<>>}
    /\ storage = [i \in Ids |-> NewStorage(config[i])]
    /\ client = [i \in Ids |-> None]
    /\ repo_list = [i \in Ids |-> i]
    /\ conns = <<>>
    /\ threads = thr
    /\ pc = [p \in Procs |-> IF p = Ctor THEN "environ" ELSE "idle"]
    /\ unordered = [p \in Procs |-> <<>>]
    /\ ordered = [p \in Procs |-> <<>>]
    /\ sum_ = [p \in Procs |-> 0]
    /\ count = [p \in Procs |-> 0]
    /\ rand_num = [p \in Procs |-> 0]
    /\ idx = [p \in Procs |-> 0]
    /\ log = [p \in Procs |-> <<>>]
    /\ ret = [p \in Procs |-> [none |-> TRUE, uri |-> <<>>]]
    /\ exc = [p \in Procs |-> "none"]

(* a single-threaded application *)
Init == InitWith(Configs, {1})

(* several threads share the context *)
ConcInit == InitWith({c \in Configs : Len(c) <= MaxConcBackends}, Ops)

(* ---- the module's store(): reads the environment and builds the        *)
(* context; ConfigParser.read skips a file it cannot open, which leaves   *)
(* a context without storages ---- *)
ModuleStore(p) ==
    /\ p = Ctor
    /\ pc[p] = "environ"
    /\ IF cfg_file = "unset"
       THEN /\ pc' = [pc EXCEPT ![p] = "raised"]
            /\ exc' = [exc EXCEPT ![p] = "Exception"]
       ELSE /\ pc' = [pc EXCEPT ![p] = "sort_repos"]
            /\ UNCHANGED exc
    /\ UNCHANGED <<regvars, npvars, ctxvars, sortvars, idx, log, ret>>

(* ---- StorageContext.store: entry ---- *)
StoreCall(p) ==
    /\ p \in threads
    /\ pc[p] = "idle"
    /\ pc[Ctor] = "returned"
    /\ pc' = [pc EXCEPT ![p] = "sort_repos"]
    /\ UNCHANGED <<regvars, npvars, ctxvars, sortvars, opvars>>

(* ---- sort_repos ---- *)
SortBegin(p) ==
    /\ pc[p] = "sort_repos"
    /\ repo_list' = ListSort(storage, repo_list)
    /\ unordered' = [unordered EXCEPT ![p] = repo_list']
    /\ ordered' = [ordered EXCEPT ![p] = <<>>]
    /\ pc' = [pc EXCEPT ![p] = "while_unordered"]
    /\ UNCHANGED <<regvars, npvars, cfg_file, config, storage, client, conns, threads,
                   sum_, count, rand_num, opvars>>

TierBegin(p) ==
    /\ pc[p] = "while_unordered"
    /\ unordered[p] # <<>>
    /\ LET priority == storage[unordered[p][1]].priority
           InTier(r) == storage[r].priority = priority
           current_priority == SelectSeq(unordered[p], InTier)
       IN  /\ sum_' = [sum_ EXCEPT ![p] = SumWeights(storage, current_priority)]
           /\ count' = [count EXCEPT ![p] = Len(current_priority)]
    /\ pc' = [pc EXCEPT ![p] = "while_count"]
    /\ UNCHANGED <<regvars, npvars, ctxvars, unordered, ordered, rand_num, opvars>>

(* one turn of `while count': randint(0, sum_+1) raises ValueError on an  *)
(* empty range; otherwise the for loop picks a repo for the draw           *)
Extract(p) ==
    /\ pc[p] = "while_count"
    /\ IF sum_[p] + 1 < 0
       THEN /\ pc' = [pc EXCEPT ![p] = "raised"]
            /\ exc' = [exc EXCEPT ![p] = "ValueError"]
            /\ UNCHANGED sortvars
       ELSE /\ \E r \in 0..(sum_[p] + 1) :
                 LET repo == WalkUnordered(storage, unordered[p], 1, r)
                 IN  /\ rand_num' = [rand_num EXCEPT ![p] = r]
                     /\ ordered' = [ordered EXCEPT ![p] = Append(@, repo)]
                     /\ unordered' = [unordered EXCEPT ![p] = ListRemove(@, repo)]
                     /\ sum_' = [sum_ EXCEPT ![p] = @ - storage[repo].weight]
            /\ count' = [count EXCEPT ![p] = @ - 1]
            /\ pc' = [pc EXCEPT ![p] = IF count[p] = 1 THEN "while_unordered"
                                        ELSE "while_count"]
            /\ exc' = exc
    /\ UNCHANGED <<regvars, npvars, ctxvars, idx, log, ret>>

(* sort_repos returns: its locals are gone, `ordered' with them *)
SortReturn(p) ==
    /\ pc[p] = "while_unordered"
    /\ unordered[p] = <<>>
    /\ pc' = [pc EXCEPT ![p] = IF p = Ctor THEN "returned" ELSE "for_storage"]
    /\ idx' = [idx EXCEPT ![p] = IF p = Ctor THEN 0 ELSE 1]
    /\ ordered' = [ordered EXCEPT ![p] = <<>>]
    /\ sum_' = [sum_ EXCEPT ![p] = 0]
    /\ count' = [count EXCEPT ![p] = 0]
    /\ rand_num' = [rand_num EXCEPT ![p] = 0]
    /\ UNCHANGED <<regvars, npvars, ctxvars, unordered, log, ret, exc>>

(* ---- the storages: setup() ---- *)
Storage(p) == repo_list[idx[p]]

Called(p, call, s, ok) ==
    log' = [log EXCEPT ![p] = Append(@, [call |-> call, id |-> s, ok |-> ok])]

(* setup() whose result the for loop does not look at *)
LocalSetup_nocontinue(p) ==
    /\ pc[p] = "for_storage"
    /\ idx[p] <= Len(repo_list)
    /\ storage[Storage(p)].type_ = "local"
    /\ \E writable \in BOOLEAN : Called(p, "setup", Storage(p), writable)
    /\ pc' = [pc EXCEPT ![p] = "store"]
    /\ UNCHANGED <<regvars, npvars, ctxvars, sortvars, idx, ret, exc>>

(* BaseStorage.setup: os.access(dest, W_OK) *)
LocalSetup(p) ==
    /\ pc[p] = "for_storage"
    /\ idx[p] <= Len(repo_list)
    /\ storage[Storage(p)].type_ = "local"
    /\ \E writable \in BOOLEAN :
         /\ Called(p, "setup", Storage(p), writable)
         /\ IF writable
            THEN pc' = [pc EXCEPT ![p] = "store"] /\ idx' = idx
            ELSE pc' = pc /\ idx' = [idx EXCEPT ![p] = @ + 1]
    /\ UNCHANGED <<regvars, npvars, ctxvars, sortvars, ret, exc>>

(* ssh.Storage.setup: what the transport does is the server's choice.     *)
(*   refused:  paramiko.Transport(...) raises SSHException, no transport  *)
(*   ssh_exc:  connect or auth_password raises SSHException               *)
(*   not_auth: auth_password returns, transport.authenticated is false    *)
(*   ok:       authenticated, the sftp client is opened                   *)
SshOutcomes == {"refused", "ssh_exc", "not_auth", "ok"}

NewConn(p, s, sftp) ==
    [backend |-> s, owner |-> p, open |-> TRUE, sftp |-> sftp, writers |-> {}]

SshSetup(p) ==
    /\ pc[p] = "for_storage"
    /\ idx[p] <= Len(repo_list)
    /\ storage[Storage(p)].type_ = "ssh"
    /\ \E o \in SshOutcomes :
         /\ Called(p, "setup", Storage(p), o = "ok")
         /\ conns' = IF o = "refused" THEN conns
                     ELSE Append(conns, NewConn(p, Storage(p), o = "ok"))
         /\ client' = IF o = "ok"
                      THEN [client EXCEPT ![Storage(p)] = Len(conns) + 1]
                      ELSE client
         /\ IF o = "ok"
            THEN pc' = [pc EXCEPT ![p] = "store"] /\ idx' = idx
            ELSE pc' = pc /\ idx' = [idx EXCEPT ![p] = @ + 1]
    /\ UNCHANGED <<regvars, npvars, cfg_file, config, storage, repo_list, threads, sortvars, ret, exc>>

(* the for loop of StorageContext.store ends: the method returns None *)
Exhausted(p) ==
    /\ pc[p] = "for_storage"
    /\ idx[p] > Len(repo_list)
    /\ pc' = [pc EXCEPT ![p] = "returned"]
    /\ ret' = [ret EXCEPT ![p] = [none |-> TRUE, uri |-> <<>>]]
    /\ UNCHANGED <<regvars, npvars, ctxvars, sortvars, idx, log, exc>>

(* ---- the storages: store() ---- *)
EndsWithSlash(uri) == uri # <<>> /\ uri[Len(uri)] = "/"

(* the name get_name returned, reduced to its basename *)
NewName == <<"f">>

Normalised_always(uri) == uri \o <<"/">>

(* lines 165-168 and ssh.py 74-77: base_uri is normalised in place *)
Normalised(uri) == IF EndsWithSlash(uri) THEN uri ELSE uri \o <<"/">>

(* what can happen inside store(): get_name raises, the write raises,     *)
(* or the file is written                                                  *)
StoreOutcomes == {"name_exc", "write_exc", "ok"}

Returns(p, s, new_name) ==
    /\ storage' = [storage EXCEPT ![s].base_uri = Normalised(@)]
    /\ ret' = [ret EXCEPT ![p] =
                 [none |-> FALSE, uri |-> Normalised(storage[s].base_uri) \o new_name]]
    /\ pc' = [pc EXCEPT ![p] = "returned"]
    /\ exc' = exc

Raises(p, e) ==
    /\ pc' = [pc EXCEPT ![p] = "raised"]
    /\ exc' = [exc EXCEPT ![p] = e]
    /\ UNCHANGED <<storage, ret>>

(* a store() whose failure sends the loop on to the next storage *)
LocalStore_fallback(p) ==
    /\ pc[p] = "store"
    /\ storage[Storage(p)].type_ = "local"
    /\ \E o \in StoreOutcomes :
         /\ Called(p, "store", Storage(p), o = "ok")
         /\ IF o = "ok"
            THEN Returns(p, Storage(p), NewName) /\ idx' = idx
            ELSE /\ pc' = [pc EXCEPT ![p] = "for_storage"]
                 /\ idx' = [idx EXCEPT ![p] = @ + 1]
                 /\ UNCHANGED <<storage, ret, exc>>
    /\ UNCHANGED <<regvars, npvars, cfg_file, config, client, repo_list, conns, threads, sortvars>>

(* BaseStorage.store *)
LocalStore(p) ==
    /\ pc[p] = "store"
    /\ storage[Storage(p)].type_ = "local"
    /\ \E o \in StoreOutcomes :
         /\ Called(p, "store", Storage(p), o = "ok")
         /\ IF o = "ok" THEN Returns(p, Storage(p), NewName) ELSE Raises(p, o)
    /\ UNCHANGED <<regvars, npvars, cfg_file, config, client, repo_list, conns, threads, sortvars, idx>>

(* ssh.Storage.store: self.client is whatever the last setup() of this    *)
(* instance left there; writing through a closed client raises             *)
SshStore(p) ==
    /\ pc[p] = "store"
    /\ storage[Storage(p)].type_ = "ssh"
    /\ LET c == client[Storage(p)]
       IN \E o \in StoreOutcomes :
            LET done == o = "ok" /\ conns[c].open
                wrote == [conns EXCEPT ![c].writers = @ \cup {p}]
            IN  /\ Called(p, "store", Storage(p), done)
                /\ conns' = IF done THEN [wrote EXCEPT ![c].open = FALSE]
                            ELSE conns
                /\ IF done THEN Returns(p, Storage(p), NewName)
                   ELSE Raises(p, IF o = "ok" THEN "write_exc" ELSE o)
    /\ UNCHANGED <<regvars, npvars, cfg_file, config, client, repo_list, threads, sortvars, idx>>

(* ---- the name policies ---- *)
LastIndex(s, ch) ==
    LET at == {i \in 1..Len(s) : s[i] = ch}
    IN  IF at = {} THEN 0 ELSE CHOOSE i \in at : \A j \in at : j <= i

(* os.path.dirname, basename, join and splitext(...)[1] on posix paths *)
dirname(path) == SubSeq(path, 1, LastIndex(path, "/") - 1)

basename(path) == SubSeq(path, LastIndex(path, "/") + 1, Len(path))

join(a, b) ==
    IF a = <<>> THEN b
    ELSE IF a[Len(a)] = "/" THEN a \o b
    ELSE a \o <<"/">> \o b

splitext_ext(path) ==
    LET sep == LastIndex(path, "/")
        dot == LastIndex(path, ".")
    IN  IF dot > sep /\ \E i \in (sep + 1)..(dot - 1) : path[i] # "."
        THEN SubSeq(path, dot, Len(path))
        ELSE <<>>

(* ''.join(choice(_CHARS) for x in range(10)), on a small alphabet *)
RandNames == {<<"a">>, <<"b">>}

(* datetime.now().strftime('%Y%m%d-%H%M%S') *)
strftime(t) == <<ToString(t)>>

Policies == {"random", "preserve", "preserve_ext"}

(* the paths get_name asks for: dest joined with the file's basename *)
Wanted == {<<"d", "/", "n">>, <<"d", "/", "n", ".", "e">>}

(* what a policy can come up with for a wanted path *)
Candidates(path) ==
    {path}
    \cup {path \o <<".">> \o strftime(t) : t \in 0..MaxClock}
    \cup {join(dirname(path), r) : r \in RandNames}
    \cup {join(dirname(path), r) \o splitext_ext(path) : r \in RandNames}

(* one local storage, and a thread that is inside its store(): get_name  *)
(* is calling the policy                                                  *)
NpInit ==
    /\ Registered
    /\ cfg_file = "readable"
    /\ \E b \in BaseUris :
         config = <<[type_ |-> "local", base_uri |-> b,
                     priority |-> 0, weight |-> 0]>>
    /\ storage = [i \in Ids |-> NewStorage(config[i])]
    /\ client = [i \in Ids |-> None]
    /\ repo_list = <<1>>
    /\ conns = <<>>
    /\ threads = {1}
    /\ pc = [p \in Procs |-> IF p = 1 THEN "store" ELSE "off"]
    /\ unordered = [p \in Procs |-> <<>>]
    /\ ordered = [p \in Procs |-> <<>>]
    /\ sum_ = [p \in Procs |-> 0]
    /\ count = [p \in Procs |-> 0]
    /\ rand_num = [p \in Procs |-> 0]
    /\ idx = [p \in Procs |-> IF p = 1 THEN 1 ELSE 0]
    /\ log = [p \in Procs |-> <<>>]
    /\ ret = [p \in Procs |-> [none |-> TRUE, uri |-> <<>>]]
    /\ exc = [p \in Procs |-> "none"]
    /\ np_policy \in Policies
    /\ np_path \in Wanted
    /\ fs \in SUBSET Candidates(np_path)
    /\ now = 0
    /\ np_pc = "call"
    /\ np_arg = np_path
    /\ np_stack = <<>>
    /\ np_tries = 0
    /\ np_result = <<>>
    /\ np_exc = "none"

nonnpvars == <<ctxvars, pc, sortvars, opvars, regvars>>

(* the clock of the machine *)
Tick ==
    /\ np_pc \in {"call", "while_exists"}
    /\ now < MaxClock
    /\ now' = now + 1
    /\ UNCHANGED <<nonnpvars, fs, np_policy, np_path, np_pc, np_arg, np_stack,
                   np_tries, np_result, np_exc>>

Taken(n) == IF n < MaxTries THEN n + 1 ELSE MaxTries

(* np_random, np_preserve_ext: a call builds its candidate; the          *)
(* interpreter refuses a call deeper than its recursion limit             *)
NpEnterRandom ==
    /\ np_pc = "call"
    /\ np_policy \in {"random", "preserve_ext"}
    /\ Len(np_stack) < RecursionLimit
    /\ \E r \in RandNames :
         LET ext == IF np_policy = "preserve_ext" THEN splitext_ext(np_arg)
                    ELSE <<>>
             npath == join(dirname(np_arg), r) \o ext
         IN  np_stack' = Append(np_stack, npath)
    /\ np_pc' = "while_exists"
    /\ UNCHANGED <<nonnpvars, fs, now, np_policy, np_path, np_arg, np_tries,
                   np_result, np_exc>>

NpRecursionError ==
    /\ np_pc = "call"
    /\ np_policy \in {"random", "preserve_ext"}
    /\ Len(np_stack) >= RecursionLimit
    /\ np_stack' = <<>>
    /\ np_pc' = "raised"
    /\ np_exc' = "RuntimeError"
    /\ UNCHANGED <<nonnpvars, fs, now, np_policy, np_path, np_arg, np_tries,
                   np_result>>

(* np_preserve: the first candidate is the path itself *)
NpEnterPreserve ==
    /\ np_pc = "call"
    /\ np_policy = "preserve"
    /\ np_stack' = <<np_arg>>
    /\ np_pc' = "while_exists"
    /\ UNCHANGED <<nonnpvars, fs, now, np_policy, np_path, np_arg, np_tries,
                   np_result, np_exc>>

Top == np_stack[Len(np_stack)]

(* while os.path.exists(npath): the candidate is taken *)
NpRetryRandom ==
    /\ np_pc = "while_exists"
    /\ np_policy \in {"random", "preserve_ext"}
    /\ Top \in fs
    /\ np_arg' = Top
    /\ np_pc' = "call"
    /\ np_tries' = Taken(np_tries)
    /\ UNCHANGED <<nonnpvars, fs, now, np_policy, np_path, np_stack,
                   np_result, np_exc>>

NpRetryPreserve ==
    /\ np_pc = "while_exists"
    /\ np_policy = "preserve"
    /\ Top \in fs
    /\ np_stack' = <<np_path \o <<".">> \o strftime(now)>>
    /\ np_tries' = Taken(np_tries)
    /\ UNCHANGED <<nonnpvars, fs, now, np_policy, np_path, np_pc, np_arg,
                   np_result, np_exc>>

(* a frame that returns its candidate without looking at the disk *)
NpReturn_unchecked ==
    /\ np_pc = "while_exists"
    /\ IF Len(np_stack) = 1
       THEN /\ np_result' = Top
            /\ np_stack' = <<>>
            /\ np_pc' = "returned"
       ELSE /\ np_stack' = [SubSeq(np_stack, 1, Len(np_stack) - 1)
                              EXCEPT ![Len(np_stack) - 1] = Top]
            /\ UNCHANGED <<np_result, np_pc>>
    /\ UNCHANGED <<nonnpvars, fs, now, np_policy, np_path, np_arg, np_tries,
                   np_exc>>

(* the candidate is free: the frame returns it; the caller's npath takes *)
(* the value and the caller checks again                                  *)
NpReturn ==
    /\ np_pc = "while_exists"
    /\ Top \notin fs
    /\ IF Len(np_stack) = 1
       THEN /\ np_result' = Top
            /\ np_stack' = <<>>
            /\ np_pc' = "returned"
       ELSE /\ np_stack' = [SubSeq(np_stack, 1, Len(np_stack) - 1)
                              EXCEPT ![Len(np_stack) - 1] = Top]
            /\ UNCHANGED <<np_result, np_pc>>
    /\ UNCHANGED <<nonnpvars, fs, now, np_policy, np_path, np_arg, np_tries,
                   np_exc>>

(* ---- BaseStorage.store around the policy ---- *)
(* the policy raised: get_name and store() let the exception through *)
NpStoreRaises ==
    /\ np_pc = "raised"
    /\ pc[1] = "store"
    /\ Called(1, "store", Storage(1), FALSE)
    /\ Raises(1, "name_exc")
    /\ UNCHANGED <<regvars, npvars, cfg_file, config, client, repo_list, conns, threads,
                   sortvars, idx>>

(* open(name, 'w').write(...): the file exists from now on, or the write *)
(* raises; then the URI is built from the basename of the name           *)
NpStoreWrite ==
    /\ np_pc = "returned"
    /\ pc[1] = "store"
    /\ \E ok \in BOOLEAN :
         /\ Called(1, "store", Storage(1), ok)
         /\ IF ok
            THEN /\ fs' = fs \cup {np_result}
                 /\ Returns(1, Storage(1), basename(np_result))
            ELSE /\ fs' = fs
                 /\ Raises(1, "write_exc")
    /\ np_pc' = "off"
    /\ UNCHANGED <<regvars, cfg_file, config, client, repo_list, conns, threads,
                   sortvars, idx, now, np_policy, np_path, np_arg, np_stack,
                   np_tries, np_result, np_exc>>

(* the application stores another file on the same storage *)
NpStoreAgain ==
    /\ pc[1] = "returned"
    /\ Len(log[1]) < MaxStores
    /\ pc' = [pc EXCEPT ![1] = "store"]
    /\ ret' = [ret EXCEPT ![1] = [none |-> TRUE, uri |-> <<>>]]
    /\ np_path' \in Wanted
    /\ np_arg' = np_path'
    /\ np_pc' = "call"
    /\ np_tries' = 0
    /\ np_result' = <<>>
    /\ UNCHANGED <<regvars, ctxvars, sortvars, idx, log, exc, fs, now, np_policy,
                   np_stack, np_exc>>

NpNext ==
    \/ Tick
    \/ NpEnterRandom
    \/ NpRecursionError
    \/ NpEnterPreserve
    \/ NpRetryRandom
    \/ NpRetryPreserve
    \/ NpReturn
    \/ NpStoreRaises
    \/ NpStoreWrite
    \/ NpStoreAgain

NpSpec == NpInit /\ [][NpNext]_vars

(* ---- the registry on its own ---- *)
RegSpecInit ==
    /\ RegInit
    /\ NpIdle
    /\ cfg_file = "readable"
    /\ config = <<>>
    /\ storage = <<>>
    /\ client = <<>>
    /\ repo_list = <<>>
    /\ conns = <<>>
    /\ threads = {}
    /\ pc = [p \in Procs |-> "off"]
    /\ unordered = [p \in Procs |-> <<>>]
    /\ ordered = [p \in Procs |-> <<>>]
    /\ sum_ = [p \in Procs |-> 0]
    /\ count = [p \in Procs |-> 0]
    /\ rand_num = [p \in Procs |-> 0]
    /\ idx = [p \in Procs |-> 0]
    /\ log = [p \in Procs |-> <<>>]
    /\ ret = [p \in Procs |-> [none |-> TRUE, uri |-> <<>>]]
    /\ exc = [p \in Procs |-> "none"]

RegNext ==
    \/ \E klass \in Classes : RegBegin(klass)
    \/ RegKey
    \/ RegEnd

RegSpec == RegSpecInit /\ [][RegNext]_vars

Next ==
    \E p \in Procs :
        \/ ModuleStore(p)
        \/ StoreCall(p)
        \/ SortBegin(p)
        \/ TierBegin(p)
        \/ Extract(p)
        \/ SortReturn(p)
        \/ LocalSetup(p)
        \/ SshSetup(p)
        \/ Exhausted(p)
        \/ LocalStore(p)
        \/ SshStore(p)

Spec == Init /\ [][Next]_vars

ConcSpec == ConcInit /\ [][Next]_vars

(* ======================= the claims ======================= *)
Iterating(p) == pc[p] \in {"for_storage", "store"}

LastCall(p) == log[p][Len(log[p])]

(* C1: priority dominance.  In the list StorageContext.store iterates     *)
(* after sort_repos, a storage of lower priority value comes before any   *)
(* storage of higher priority value, whatever the draws were.             *)
PriorityDominance ==
    \A p \in Ops :
        Iterating(p) =>
            \A i, j \in 1..Len(repo_list) :
                storage[repo_list[i]].priority < storage[repo_list[j]].priority
                    => i < j

(* the file lists the storage of priority 1 first, and with the larger weight *)
PriorityDominanceWitness ==
    /\ pc[1] = "for_storage"
    /\ \E i, j \in Ids :
         /\ i < j
         /\ config[i].priority > config[j].priority
         /\ config[i].weight > config[j].weight

(* C2: failover.  One store() call sets the storages up in the order of   *)
(* repo_list, each at most once; store() is invoked on the first storage  *)
(* whose setup() returned true, on no other, and its result is returned.  *)
FailoverInOrder ==
    \A p \in Ops :
        LET l == log[p]
        IN  /\ \A k \in 1..Len(l) :
                 /\ l[k].call = "setup" =>
                        /\ l[k].id = repo_list[k]
                        /\ \A j \in 1..(k - 1) : l[j].call = "setup" /\ ~l[j].ok
                 /\ l[k].call = "store" =>
                        /\ k = Len(l)
                        /\ k > 1
                        /\ l[k - 1].call = "setup"
                        /\ l[k - 1].ok
                        /\ l[k - 1].id = l[k].id
            /\ (pc[p] = "returned" /\ ~ret[p].none) =>
                   /\ l # <<>>
                   /\ LastCall(p).call = "store"
                   /\ LastCall(p).ok
                   /\ ret[p].uri = storage[LastCall(p).id].base_uri \o NewName
            /\ (l # <<>> /\ LastCall(p).call = "store" /\ LastCall(p).ok) =>
                   pc[p] = "returned" /\ ~ret[p].none

(* the first of two storages of one priority fails its setup, the second  *)
(* is stored to, a third one is left alone                                 *)
FailoverWitness ==
    /\ pc[1] = "returned"
    /\ Len(repo_list) = 3
    /\ Len(log[1]) = 3
    /\ log[1][1].call = "setup" /\ ~log[1][1].ok
    /\ log[1][2].call = "setup" /\ log[1][2].ok
    /\ log[1][3].call = "store" /\ log[1][3].ok
    /\ storage[repo_list[1]].priority = storage[repo_list[2]].priority
    /\ ~ret[1].none

(* C3: exhaustion.  When every configured storage failed its setup() (or  *)
(* none is configured) the store() call ends with a BackendUnavailable    *)
(* error and not by returning.                                             *)
ExhaustionRaises ==
    \A p \in Ops :
        ( /\ pc[p] \in {"returned", "raised"}
          /\ Len(log[p]) = Len(repo_list)
          /\ \A k \in 1..Len(log[p]) : log[p][k].call = "setup" /\ ~log[p][k].ok )
        => pc[p] = "raised" /\ exc[p] = "BackendUnavailable"

(* C4: weight-driven ordering.  With two or more storages of one priority *)
(* and positive weights, the list store() iterates is the ordering the    *)
(* draws of sort_repos built, so that each of them can come first.        *)
SingleTierPositive ==
    /\ Len(config) >= 2
    /\ \A i \in Ids : storage[i].priority = storage[1].priority
    /\ \A i \in Ids : storage[i].weight > 0

WeightedOrderIterated ==
    [][\A p \in Ops :
          (pc[p] = "while_unordered" /\ pc'[p] = "for_storage" /\ SingleTierPositive)
              => repo_list' = ordered[p]]_vars

ZeroTier(i) == \A j \in Ids : storage[j].priority = storage[i].priority
                                  => storage[j].weight = 0

DegenerateWeights ==
    \A p \in Procs :
        \A i \in Ids :
            ZeroTier(i) =>
                /\ exc[p] # "ValueError"
                /\ (pc[p] = "while_unordered" /\ unordered[p] = <<>>) =>
                       Cardinality({k \in 1..Len(ordered[p]) : ordered[p][k] = i}) = 1

(* C7: connection release.  After store() of an ssh storage has returned  *)
(* or raised, no connection its setup() opened is still open.              *)
ConnectionReleased ==
    \A p \in Ops :
        ( /\ pc[p] \in {"returned", "raised"}
          /\ log[p] # <<>>
          /\ LastCall(p).call = "store"
          /\ storage[LastCall(p).id].type_ = "ssh" )
        => \A c \in 1..Len(conns) :
               (conns[c].backend = LastCall(p).id /\ conns[c].sftp)
                   => ~conns[c].open

(* C8: no shared state between concurrent store() calls.  While a call    *)
(* iterates the list no step reorders it, and a connection is written to  *)
(* and closed only by the call whose setup() opened it.                    *)
NoSharedState ==
    [][ /\ (\E p \in Ops : Iterating(p)) => repo_list' = repo_list
        /\ \A c \in 1..Len(conns') : conns'[c].writers \subseteq {conns'[c].owner}
      ]_vars

(* C9: descriptor immutability.  Once the context is built, no step of a  *)
(* store() call changes a field of a configured storage or the shared     *)
(* list of storages.                                                        *)
DescriptorsImmutable ==
    [][pc[Ctor] = "returned" => storage' = storage /\ repo_list' = repo_list]_vars

(* C10: termination bound of the name policies.  A policy that keeps      *)
(* finding its candidates taken stops within its retry bound, and it      *)
(* fails with PolicyError.                                                  *)
NamingPolicyBounded ==
    Candidates(np_path) \subseteq fs =>
        /\ np_tries >= MaxTries => np_pc = "raised"
        /\ np_pc = "raised" => np_exc = "PolicyError"

(* C11: the module's store() fails with a configuration error, before any  *)
(* storage is set up or written to, both when STORAGELIB_CONFIG_FILE is    *)
(* not set and when it names a file that cannot be read: the call never    *)
(* returns normally in either case.                                        *)
ConfigErrorsSurfaced ==
    cfg_file # "readable" =>
        \A p \in Ops : pc[p] # "returned" /\ log[p] = <<>>

(* C12: the URI a storage's store() returns is its configured base_uri,   *)
(* with a single '/' appended only if it does not already end with one,   *)
(* followed by the basename of the path the naming policy chose; this     *)
(* holds for every call of a sequence of store() calls on the same        *)
(* storage (the separator is never doubled), and with the preserve policy *)
(* and no existing file the URI ends with the file's original basename.   *)
Separated(uri) == IF EndsWithSlash(uri) THEN uri ELSE uri \o <<"/">>

ReturnedUri ==
    (np_policy # "none" /\ pc[1] = "returned") =>
        LET base == Separated(config[Storage(1)].base_uri)
        IN  /\ ~ret[1].none
            /\ ret[1].uri = base \o basename(np_result)
            /\ np_policy = "preserve" /\ np_tries = 0 =>
                   ret[1].uri = base \o basename(np_path)

ReturnedUriWitness ==
    /\ pc[1] = "returned"
    /\ Len(log[1]) = MaxStores
    /\ \A k \in 1..Len(log[1]) : log[1][k].ok
    /\ ~EndsWithSlash(config[Storage(1)].base_uri)
    /\ np_policy = "preserve"
    /\ np_tries = 0

(* C13: when sort_repos completes, both the ordering it has built and the *)
(* candidate list store() iterates contain exactly the configured         *)
(* storages, each exactly once, whatever the number of sort_repos         *)
(* invocations before.                                                    *)
IsPermutation(s) ==
    /\ Len(s) = Len(config)
    /\ \A i \in Ids : \E k \in 1..Len(s) : s[k] = i

Completed(p) == pc[p] = "while_unordered" /\ unordered[p] = <<>>

Permutation ==
    \A p \in Procs :
        /\ Completed(p) => IsPermutation(ordered[p]) /\ IsPermutation(repo_list)
        /\ Iterating(p) => IsPermutation(repo_list)

PermutationWitness ==
    /\ Completed(1)
    /\ Len(config) = MaxBackends
    /\ ordered[1] # repo_list

(* C14: every weighted extraction of sort_repos selects an element of the *)
(* tier being processed (the priority of the head of `unordered'), so the *)
(* ordering it builds lists a tier's elements before any element of a     *)
(* tier with a higher priority value.                                     *)
TierConfined ==
    [][\A p \in Procs :
         (pc[p] = "while_count" /\ ordered'[p] # ordered[p]) =>
             LET repo == ordered'[p][Len(ordered'[p])]
             IN  /\ storage[repo].priority = storage[unordered[p][1]].priority
                 /\ \A k \in 1..Len(ordered[p]) :
                        storage[ordered[p][k]].priority <= storage[repo].priority]_vars

(* C15: at every draw of sort_repos, sum_ is the total weight of the      *)
(* not-yet-selected elements of the current tier (hence never negative),  *)
(* and the integer drawn lies in [0, sum_], both ends included.           *)
TierLeft(p) ==
    LET priority == storage[unordered[p][1]].priority
        InTier(r) == storage[r].priority = priority
    IN  SelectSeq(unordered[p], InTier)

DrawRange ==
    [][\A p \in Procs :
         pc[p] = "while_count" =>
             /\ sum_[p] >= 0
             /\ sum_[p] = SumWeights(storage, TierLeft(p))
             /\ ordered'[p] # ordered[p] => rand_num'[p] \in 0..sum_[p]]_vars

(* C16: sort_repos always completes: for every configuration and every    *)
(* sequence of draws it performs exactly one extraction per configured    *)
(* storage and returns without raising (no draw is asked on an empty      *)
(* range).                                                                *)
SortCompletes ==
    \A p \in Procs :
        /\ pc[p] = "raised" => exc[p] # "ValueError"
        /\ pc[p] = "while_count" => sum_[p] + 1 >= 0
        /\ Completed(p) => Len(ordered[p]) = Len(config)

(* C17: whenever the ssh storage's setup() returns false (the connection  *)
(* fails, the authentication raises, or the transport is not              *)
(* authenticated), no transport or client opened during that setup()      *)
(* remains open, and the storage holds no client afterwards.              *)
FailedSetupClean ==
    /\ \A c \in 1..Len(conns) : ~conns[c].sftp => ~conns[c].open
    /\ \A p \in Ops :
         (/\ log[p] # <<>>
          /\ LastCall(p).call = "setup"
          /\ ~LastCall(p).ok
          /\ storage[LastCall(p).id].type_ = "ssh")
             => client[LastCall(p).id] = None

(* C18: weight has no observable effect on the selection order: two       *)
(* configurations that differ only in the weights of their storages get   *)
(* the same candidate order in StorageContext.store.  The order of the    *)
(* configuration whose weights are all equal is by priority, ties in      *)
(* configuration order, so every configuration would have to get that     *)
(* order.                                                                 *)
Before(i, j) == i < j /\ j <= Len(repo_list)

WeightBlindOrder ==
    \A p \in Ops :
        Iterating(p) =>
            \A i, j \in 1..Len(repo_list) :
                Before(i, j) =>
                    LET a == repo_list[i]
                        b == repo_list[j]
                    IN  \/ storage[a].priority < storage[b].priority
                        \/ /\ storage[a].priority = storage[b].priority
                           /\ a < b

(* C18, as the code has it: the random draws have no effect on the order  *)
(* store() iterates, which is the configured list sorted by priority,     *)
(* then by ascending weight, ties in configuration order.                 *)
WeightKeyedOrder ==
    \A p \in Ops :
        Iterating(p) =>
            \A i, j \in 1..Len(repo_list) :
                Before(i, j) =>
                    LET a == repo_list[i]
                        b == repo_list[j]
                    IN  \/ storage[a].priority < storage[b].priority
                        \/ /\ storage[a].priority = storage[b].priority
                           /\ storage[a].weight < storage[b].weight
                        \/ /\ storage[a].priority = storage[b].priority
                           /\ storage[a].weight = storage[b].weight
                           /\ a < b

WeightKeyedOrderWitness ==
    /\ Iterating(1)
    /\ Len(repo_list) = MaxBackends
    /\ \E i, j \in 1..Len(repo_list) :
         /\ Before(i, j)
         /\ repo_list[i] > repo_list[j]
         /\ storage[repo_list[i]].priority = storage[repo_list[j]].priority

(* C19: whenever a naming policy returns, the path it returns did not     *)
(* exist at the policy's last existence check and lies in the directory   *)
(* of the desired path; preserve returns the desired path unchanged when  *)
(* it does not exist, and the result of preserve_ext ends with the        *)
(* desired path's extension.                                              *)
EndsWith(s, t) ==
    /\ Len(t) <= Len(s)
    /\ SubSeq(s, Len(s) - Len(t) + 1, Len(s)) = t

NamingPostcondition ==
    np_pc = "returned" =>
        /\ np_result \notin fs
        /\ dirname(np_result) = dirname(np_path)
        /\ (np_policy = "preserve" /\ np_path \notin fs) => np_result = np_path
        /\ np_policy = "preserve_ext" =>
               EndsWith(np_result, splitext_ext(np_path))

NamingPostconditionWitness ==
    /\ np_pc = "returned"
    /\ np_policy = "preserve_ext"
    /\ splitext_ext(np_path) # <<>>
    /\ np_tries > 0
    /\ fs # {}

(* C20: after any sequence of registrations of storage types (the same    *)
(* type more than once included), the extra_attrs of every registered     *)
(* type lists exactly the fields that type marks with Attr, without       *)
(* duplicates: registering ssh (host, port, user, password) adds nothing  *)
(* to the schema of the local type.                                       *)
Schema(klass) == extra_attrs[Owner(extra_attrs, klass)].list

Declared(klass) == {key \in KeySet : class_dict[klass][key] # "absent"}

SchemaIsolation ==
    reg.pc = "idle" =>
        \A klass \in Classes :
            STORAGES[TypeOf(klass)] = klass =>
                /\ {Schema(klass)[i] : i \in 1..Len(Schema(klass))} = Declared(klass)
                /\ Len(Schema(klass)) = Cardinality(Declared(klass))
====
